---------------------------- MODULE Spec2Model ----------------------------
(***************************************************************************)
(* A model of the flight crate's stereoscopic draw pipeline                *)
(* (src/src/draw/mod.rs, src/src/draw/unishade.rs) and of its VR           *)
(* controller tracking (src/src/vr.rs).                                    *)
(*                                                                         *)
(* Conventions.  An Option<T> is a sequence: <<>> is None, <<v>> is        *)
(* Some(v).  A Result is a tuple whose head is "Ok" or "Err".  Matrices,   *)
(* buffers, slices and render targets are opaque to the code modelled      *)
(* here and are tuples of tags; the values that the code computes with     *)
(* (points, axes, poses) are numbers.                                      *)
(***************************************************************************)
EXTENDS Integers, Sequences, FiniteSets, TLC

(***************************************************************************)
(* Bounds of the model.                                                    *)
(***************************************************************************)
\* Style::new is attempted at most MaxNew times per topology.
MaxNew == 2
\* The model matrices a draw call is given: 1..MaxModel.
MaxModel == 2

None == <<>>
Some(v) == <<v>>
IsSome(o) == o # <<>>
Unwrap(o) == o[1]

(***************************************************************************)
(* Part 1.  Painter<R, UnishadeStyle> over a Style whose draw_raw may      *)
(* return Err (the trait's signature).                                     *)
(***************************************************************************)
VARIABLES
    map,        \* Painter.map: topology -> Option<E> (the compiled pipeline)
    inputs,     \* Painter.inputs: the pending transform and shade blocks
    enc,        \* the commands the latest call appended to ctx.encoder
    newCalls,   \* history: topology -> number of Style::new invocations
    setupOk,    \* history: topologies for which a setup call returned Ok
    call        \* history: the latest call, its arguments and what it returned

pvars == <<map, inputs, enc, newCalls, setupOk, call>>

\* Part 2 (below) has its own variables; an action of one part leaves the
\* other parts' variables as they are.
VARIABLES
    trk,        \* a ViveController
    upd,        \* history: the latest update call, what it found and returned,
                \* and whether the tracker was connected before it
    cref,       \* a ControllerRef held by the application
    rcall       \* history: the latest ControllerRef call and what it returned

tvars == <<trk, upd>>
rvars == <<cref, rcall>>

\* Part 3 (below): a VrContext, the device behind it and the latest VrMoment.
VARIABLES
    vctx,       \* VrContext: its paused and exit flags and its layer
    vmoment,    \* Option: the VrMoment the latest sync returned, until submitted
    shown,      \* history: Option, the layer the latest submit handed the device
    vcall,      \* history: the latest VrContext call and the device it read
    hist        \* history: what the events drained so far amount to

svars == <<vctx, vmoment, shown, vcall, hist>>

\* Part 4 (below): the RefCell around Painter.inputs while cfg closures run.
VARIABLES
    borrow,     \* the RefCell's borrow flag: "free" or "mut"
    nesting,    \* the number of cfg closures that are running
    fault       \* Option: the panic that ended the thread

bvars == <<borrow, nesting, fault>>
vars == <<pvars, tvars, rvars, svars, bvars>>


\* gfx::Primitive values a mesh can carry (a subset of the enum).
Topologies == {"LineList", "TriangleList"}

\* The two colour pairs a cfg closure passes to UnishadeInputs::colors.
ColorPairs == {<<"black", "white">>, <<"red", "blue">>}

\* A pipeline state object: the generation is the ordinal of the Style::new
\* invocation (for that topology) that compiled it.
Pso(prim, gen) == [prim |-> prim, gen |-> gen]

ToHomogeneous(p) == Append(p, 1)

\* One eye of a frame's DrawParams.  Left and right differ in every field.
EyeCtx(f, side) ==
    [ eye         |-> IF side = "left" THEN <<2 * f, 0, 2>>
                                         ELSE <<2 * f + 1, 0, 2>>,
      view        |-> <<"view", f, side>>,
      proj        |-> <<"proj", f, side>>,
      clip_offset |-> IF side = "left" THEN -1 ELSE 1,
      clip        |-> IF side = "left"
                        THEN [x |-> 0, y |-> 0, w |-> 4 * f, h |-> 3]
                        ELSE [x |-> 4 * f, y |-> 0, w |-> 4 * f, h |-> 3] ]

DrawParamsOf(f) ==
    [ left  |-> EyeCtx(f, "left"),
      right |-> EyeCtx(f, "right"),
      color |-> <<"color", f>>,
      depth |-> <<"depth", f>> ]

\* The frames whose DrawParams a draw call is given.
Frames == {1}
Ctxs == { DrawParamsOf(f) : f \in Frames }
Models == { <<"model", k>> : k \in 1..MaxModel }

MeshOf(prim) ==
    [ prim |-> prim, slice |-> <<"slice", prim>>, buf |-> <<"verts", prim>>,
      mat |-> <<>> ]
Meshes == { MeshOf(p) : p \in Topologies }

\* The outcomes of one draw_raw call: Ok, or Err returned before or after
\* the pending values were drained (the trait does not fix the point).
Outcomes == {"ok", "early", "late"}
\* The outcomes of the two draw_raw calls of one try_draw; the right eye's
\* is "skipped" when the call is not made.
OutcomePairs ==
    { <<l, r>> \in Outcomes \X (Outcomes \cup {"skipped"}) :
        (l = "ok") <=> (r # "skipped") }

UpdateTransform(t) == [cmd |-> "update_transform", arg |-> t]
UpdateShade(s) == [cmd |-> "update_shade", arg |-> s]
DrawCmd(pso, color, depth, scissor, slice, buf) ==
    [ cmd |-> "draw",
      arg |-> [ pso |-> pso, color |-> color, depth |-> depth, verts |-> buf,
                scissor |-> scissor, slice |-> slice,
                transform |-> "transform_block", shade |-> "shade_block" ] ]

\* StyleInputs::transform for UnishadeInputs: stage the block.
SetTransform(inp, block) == [inp EXCEPT !.transform = Some(block)]

\* UnishadeInputs::colors: stage the shade block.
SetColors(inp, dark, light) ==
    [inp EXCEPT !.shade = Some([dark |-> dark, light |-> light])]

\* The update commands draw_raw enqueues: one per pending value, the
\* transform's first.
Drain(inp) ==
    (IF IsSome(inp.transform)
        THEN <<UpdateTransform(Unwrap(inp.transform))>> ELSE <<>>)
    \o (IF IsSome(inp.shade)
        THEN <<UpdateShade(Unwrap(inp.shade))>> ELSE <<>>)

\* A variant of Taken that leaves the shade block pending (a clone of the
\* Option in place of take()).
TakenTransformOnly(inp) == [inp EXCEPT !.transform = None]

\* Option::take on both pending slots.
Taken(inp) == [inp EXCEPT !.transform = None, !.shade = None]

\* Style::draw_raw.  With outcome "ok" this is UnishadeStyle::draw_raw; the
\* other outcomes are a style returning Err before it touched Inputs or
\* after it drained them, in both cases before its draw command.
DrawRaw(sty, inp, color, depth, scissor, slice, buf, outcome) ==
    CASE outcome = "early" ->
            [ok |-> FALSE, inputs |-> inp, cmds |-> <<>>]
      [] outcome = "late" ->
            [ok |-> FALSE, inputs |-> Taken(inp), cmds |-> Drain(inp)]
      [] OTHER ->
            [ok |-> TRUE, inputs |-> Taken(inp),
             cmds |-> Drain(inp)
                      \o <<DrawCmd(sty, color, depth, scissor, slice, buf)>>]

\* The TransformBlock try_draw builds for one eye.
TransformOf(eye, model) ==
    [ eye         |-> ToHomogeneous(eye.eye),
      model       |-> model,
      view        |-> eye.view,
      proj        |-> eye.proj,
      clip_offset |-> eye.clip_offset ]

\* A variant of RightEye that does not restage the transform: the right
\* eye is drawn with whatever the buffer holds.
RightEyeNotRestaged(sty, l, ctx, model, mesh, outR) ==
    LET r == DrawRaw(sty, l.inputs,
                     ctx.color, ctx.depth, ctx.right.clip,
                     mesh.slice, mesh.buf, outR)
    IN  [ ret    |-> IF r.ok THEN <<"Ok">> ELSE <<"Err", "DrawRaw", "right">>,
          inputs |-> r.inputs,
          cmds   |-> l.cmds \o r.cmds ]

\* The right eye's half of try_draw, run after the left draw_raw returned Ok.
RightEye(sty, l, ctx, model, mesh, outR) ==
    LET r == DrawRaw(sty, SetTransform(l.inputs, TransformOf(ctx.right, model)),
                     ctx.color, ctx.depth, ctx.right.clip,
                     mesh.slice, mesh.buf, outR)
    IN  [ ret    |-> IF r.ok THEN <<"Ok">> ELSE <<"Err", "DrawRaw", "right">>,
          inputs |-> r.inputs,
          cmds   |-> l.cmds \o r.cmds ]

\* A variant of TryDrawResult that stages the left transform before it
\* looks the topology up.
TryDrawResultStagingFirst(m, inp, ctx, model, mesh, outL, outR) ==
    LET staged == SetTransform(inp, TransformOf(ctx.left, model))
    IN  IF IsSome(m[mesh.prim])
          THEN LET sty == Unwrap(m[mesh.prim])
                   l == DrawRaw(sty, staged, ctx.color, ctx.depth,
                                ctx.left.clip, mesh.slice, mesh.buf, outL)
               IN  IF l.ok
                     THEN RightEye(sty, l, ctx, model, mesh, outR)
                     ELSE [ ret    |-> <<"Err", "DrawRaw", "left">>,
                            inputs |-> l.inputs,
                            cmds   |-> l.cmds ]
          ELSE [ ret    |-> <<"Err", "InvalidPrimitive", mesh.prim>>,
                 inputs |-> staged,
                 cmds   |-> <<>> ]

\* Painter::try_draw as a function of the painter's state and the arguments:
\* what it returns, the Inputs it leaves and the commands it enqueues.
TryDrawResult(m, inp, ctx, model, mesh, outL, outR) ==
    IF IsSome(m[mesh.prim])
      THEN LET sty == Unwrap(m[mesh.prim])
               l == DrawRaw(sty,
                            SetTransform(inp, TransformOf(ctx.left, model)),
                            ctx.color, ctx.depth, ctx.left.clip,
                            mesh.slice, mesh.buf, outL)
           IN  IF l.ok
                 THEN RightEye(sty, l, ctx, model, mesh, outR)
                 ELSE [ ret    |-> <<"Err", "DrawRaw", "left">>,
                        inputs |-> l.inputs,
                        cmds   |-> l.cmds ]
      ELSE [ ret    |-> <<"Err", "InvalidPrimitive", mesh.prim>>,
             inputs |-> inp,
             cmds   |-> <<>> ]

\* Variants of SetupResult, each with one slip a maintainer could make.
\* insert() in place of entry(): every call compiles and replaces.
SetupResultReplacing(m, n, prim, compiles) ==
    IF compiles
      THEN [ ret |-> <<"Ok">>,
             map |-> [m EXCEPT ![prim] = Some(Pso(prim, n[prim] + 1))],
             invoked |-> TRUE ]
      ELSE [ret |-> <<"Err", "PipelineState">>, map |-> m, invoked |-> TRUE]

\* entry().or_insert(E::new(..)?): the pipeline is compiled before the
\* lookup and dropped when the topology is present.
SetupResultEager(m, n, prim, compiles) ==
    IF compiles
      THEN [ ret |-> <<"Ok">>,
             map |-> IF IsSome(m[prim]) THEN m
                     ELSE [m EXCEPT ![prim] = Some(Pso(prim, n[prim] + 1))],
             invoked |-> TRUE ]
      ELSE [ret |-> <<"Err", "PipelineState">>, map |-> m, invoked |-> TRUE]

\* The entry is filled before the compile and kept when it fails.
SetupResultPoisoning(m, n, prim, compiles) ==
    IF IsSome(m[prim])
      THEN [ret |-> <<"Ok">>, map |-> m, invoked |-> FALSE]
      ELSE [ ret |-> IF compiles THEN <<"Ok">>
                     ELSE <<"Err", "PipelineState">>,
             map |-> [m EXCEPT ![prim] = Some(Pso(prim, n[prim] + 1))],
             invoked |-> TRUE ]

\* A failed compile clears the whole cache.
SetupResultEvicting(m, n, prim, compiles) ==
    IF IsSome(m[prim])
      THEN [ret |-> <<"Ok">>, map |-> m, invoked |-> FALSE]
      ELSE IF compiles
             THEN [ ret |-> <<"Ok">>,
                    map |-> [m EXCEPT ![prim] = Some(Pso(prim, n[prim] + 1))],
                    invoked |-> TRUE ]
             ELSE [ret |-> <<"Err", "PipelineState">>,
                   map |-> [p \in DOMAIN m |-> None], invoked |-> TRUE]

\* Painter::setup: what it returns, the map it leaves and whether it invoked
\* Style::new.  compiles says whether create_pipeline_state succeeds.
SetupResult(m, n, prim, compiles) ==
    IF IsSome(m[prim])
      THEN [ret |-> <<"Ok">>, map |-> m, invoked |-> FALSE]
      ELSE IF compiles
             THEN [ ret |-> <<"Ok">>,
                    map |-> [m EXCEPT ![prim] = Some(Pso(prim, n[prim] + 1))],
                    invoked |-> TRUE ]
             ELSE [ret |-> <<"Err", "PipelineState">>, map |-> m,
                   invoked |-> TRUE]

PInit ==
    /\ map = [p \in Topologies |-> None]
    /\ inputs = [transform |-> None, shade |-> None]
    /\ enc = <<>>
    /\ newCalls = [p \in Topologies |-> 0]
    /\ setupOk = {}
    /\ call = [op |-> "new", ret |-> <<"Ok">>, arg |-> <<>>]

Setup(prim, compiles) ==
    LET r == SetupResult(map, newCalls, prim, compiles)
    IN  /\ r.invoked => newCalls[prim] < MaxNew
        /\ map' = r.map
        /\ newCalls' = IF r.invoked
                         THEN [newCalls EXCEPT ![prim] = @ + 1] ELSE newCalls
        /\ setupOk' = IF r.ret[1] = "Ok" THEN setupOk \cup {prim} ELSE setupOk
        /\ enc' = <<>>
        /\ call' = [op |-> "setup", ret |-> r.ret,
                    arg |-> [prim |-> prim, compiles |-> compiles,
                             invoked |-> r.invoked]]
        /\ UNCHANGED <<inputs, tvars, rvars, svars, bvars>>

TryDraw(ctx, model, mesh, outL, outR) ==
    LET r == TryDrawResult(map, inputs, ctx, model, mesh, outL, outR)
    IN  /\ inputs' = r.inputs
        /\ enc' = r.cmds
        /\ call' = [op |-> "try_draw", ret |-> r.ret,
                    arg |-> [ctx |-> ctx, model |-> model, mesh |-> mesh,
                             outL |-> outL, outR |-> outR]]
        /\ UNCHANGED <<map, newCalls, setupOk, tvars, rvars, svars, bvars>>

\* A variant of Draw that hands try_draw's result to the caller.
DrawPropagating(ctx, model, mesh, outL, outR) ==
    LET r == TryDrawResult(map, inputs, ctx, model, mesh, outL, outR)
    IN  /\ inputs' = r.inputs
        /\ enc' = r.cmds
        /\ call' = [op |-> "draw", ret |-> r.ret,
                    arg |-> [ctx |-> ctx, model |-> model, mesh |-> mesh,
                             outL |-> outL, outR |-> outR,
                             logged |-> None]]
        /\ UNCHANGED <<map, newCalls, setupOk, tvars, rvars, svars, bvars>>

\* Painter::draw: try_draw, with an Err logged and not returned.
Draw(ctx, model, mesh, outL, outR) ==
    LET r == TryDrawResult(map, inputs, ctx, model, mesh, outL, outR)
    IN  /\ inputs' = r.inputs
        /\ enc' = r.cmds
        /\ call' = [op |-> "draw", ret |-> <<"Unit">>,
                    arg |-> [ctx |-> ctx, model |-> model, mesh |-> mesh,
                             outL |-> outL, outR |-> outR,
                             logged |-> IF r.ret[1] = "Err"
                                          THEN Some(r.ret) ELSE None]]
        /\ UNCHANGED <<map, newCalls, setupOk, tvars, rvars, svars, bvars>>

\* Painter::cfg with the closure |c| c.colors(dark, light).
Cfg(dark, light) ==
    /\ inputs' = SetColors(inputs, dark, light)
    /\ enc' = <<>>
    /\ call' = [op |-> "cfg", ret |-> <<"Unit">>,
                arg |-> [dark |-> dark, light |-> light]]
    /\ UNCHANGED <<map, newCalls, setupOk, tvars, rvars, svars, bvars>>

PNext ==
    \/ \E prim \in Topologies, compiles \in BOOLEAN : Setup(prim, compiles)
    \/ \E ctx \in Ctxs, model \in Models, mesh \in Meshes,
          out \in OutcomePairs :
            TryDraw(ctx, model, mesh, out[1], out[2])
    \/ \E ctx \in Ctxs, model \in Models, mesh \in Meshes,
          out \in OutcomePairs :
            Draw(ctx, model, mesh, out[1], out[2])
    \/ \E c \in ColorPairs : Cfg(c[1], c[2])


(***************************************************************************)
(* Properties of the painter.                                              *)
(***************************************************************************)
\* The positions of the draw commands in a command sequence.
DrawIdx(cmds) == { i \in 1..Len(cmds) : cmds[i].cmd = "draw" }
\* The position of the latest transform update before position i (0: none).
TransformIdx(cmds, i) ==
    LET U == { k \in 1..(i - 1) : cmds[k].cmd = "update_transform" }
    IN  IF U = {} THEN 0 ELSE CHOOSE k \in U : \A j \in U : j <= k
\* The TransformBlock of one eye, field by field.
EyeBlock(e, model) ==
    [ eye |-> <<e.eye[1], e.eye[2], e.eye[3], 1>>, model |-> model,
      view |-> e.view, proj |-> e.proj, clip_offset |-> e.clip_offset ]
Least(S) == CHOOSE i \in S : \A j \in S : i <= j
Greatest(S) == CHOOSE i \in S : \A j \in S : j <= i

\* C1: try_draw on a mesh whose topology no setup call has succeeded for
\* returns InvalidPrimitive carrying that topology, enqueues nothing and
\* leaves the pending values of Inputs and the pipeline cache as they were.
C1_UnsupportedPrimitive ==
    [][ (call'.op = "try_draw" /\ call'.arg.mesh.prim \notin setupOk)
        => /\ call'.ret = <<"Err", "InvalidPrimitive", call'.arg.mesh.prim>>
           /\ enc' = <<>>
           /\ inputs' = inputs
           /\ map' = map ]_vars

\* C1 happens: try_draw is refused for a topology whose only setup failed,
\* while another topology is configured and a shade block is pending.
C1_Witness ==
    /\ call.op = "try_draw"
    /\ call.arg.mesh.prim \notin setupOk
    /\ newCalls[call.arg.mesh.prim] > 0
    /\ setupOk # {}
    /\ IsSome(inputs.shade)

\* C2: after a successful setup(T) every further setup(T) returns Ok, does
\* not invoke Style::new and leaves the cache as it was; the cache holds for
\* T the one pipeline that the only successful compile produced.
C2_SetupIdempotent ==
    /\ [][ (call'.op = "setup" /\ call'.arg.prim \in setupOk)
           => /\ call'.ret = <<"Ok">>
              /\ ~call'.arg.invoked
              /\ map' = map
              /\ newCalls' = newCalls ]_vars
    /\ [](\A t \in setupOk : map[t] = <<[prim |-> t, gen |-> newCalls[t]]>>)

\* C2 happens: a setup call found its topology configured (by the second
\* compile, the first having failed) and did nothing.
C2_Witness ==
    /\ call.op = "setup"
    /\ call.ret = <<"Ok">>
    /\ ~call.arg.invoked
    /\ newCalls[call.arg.prim] = 2

\* The parts of C3 that do not depend on how the update and the draw are
\* spaced: exactly two draw commands, left then right, each with its eye's
\* viewport, sharing pipeline, vertex buffer, slice and targets, and each
\* with its own eye's block as the latest transform update, made after the
\* previous draw.
C3_TwoDraws(a, cmds) ==
    LET D == DrawIdx(cmds)
        dl == Least(D)
        dr == Greatest(D)
    IN  /\ Cardinality(D) = 2
        /\ dr = Len(cmds)
        /\ cmds[dl].arg.scissor = a.ctx.left.clip
        /\ cmds[dr].arg.scissor = a.ctx.right.clip
        /\ cmds[dl].arg.scissor # cmds[dr].arg.scissor
        /\ \A d \in D :
             /\ cmds[d].arg.color = a.ctx.color
             /\ cmds[d].arg.depth = a.ctx.depth
             /\ cmds[d].arg.verts = a.mesh.buf
             /\ cmds[d].arg.slice = a.mesh.slice
             /\ cmds[d].arg.pso = Unwrap(map[a.mesh.prim])
        /\ TransformIdx(cmds, dl) > 0
        /\ TransformIdx(cmds, dr) > dl
        /\ cmds[TransformIdx(cmds, dl)].arg = EyeBlock(a.ctx.left, a.model)
        /\ cmds[TransformIdx(cmds, dr)].arg = EyeBlock(a.ctx.right, a.model)

\* C3 as stated: a successful try_draw enqueues exactly two draw commands,
\* and the command just before each draw is the update of the transform
\* buffer with that eye's block.
C3_AsStated ==
    (call.op = "try_draw" /\ call.ret = <<"Ok">>)
    => /\ C3_TwoDraws(call.arg, enc)
       /\ \A d \in DrawIdx(enc) : TransformIdx(enc, d) = d - 1

\* C3, amended: a successful try_draw enqueues exactly two draw commands,
\* left then right; the latest transform update before each draw carries
\* that eye's block and follows the previous draw, and nothing but an update
\* of the shade buffer stands between that update and its draw.
C3_StereoDraws ==
    (call.op = "try_draw" /\ call.ret = <<"Ok">>)
    => /\ C3_TwoDraws(call.arg, enc)
       /\ \A d \in DrawIdx(enc) :
            \A k \in (TransformIdx(enc, d) + 1)..(d - 1) :
                enc[k].cmd = "update_shade"

\* C3 happens: a try_draw succeeded while a shade block was pending, so the
\* shade update stands between the left eye's transform update and draw.
C3_Witness ==
    /\ call.op = "try_draw"
    /\ call.ret = <<"Ok">>
    /\ \E k \in 1..Len(enc) : enc[k].cmd = "update_shade"

\* Whether some draw command of cmds uses the viewport clip.
DrawsWith(cmds, clip) == \E d \in DrawIdx(cmds) : cmds[d].arg.scissor = clip

\* C4 as stated: draw returns no error, and when draw_raw fails for one eye
\* of a mesh whose topology is configured, the other eye's draw command is
\* still issued.
C4_AsStated ==
    [][ (call'.op = "draw" /\ IsSome(map[call'.arg.mesh.prim]))
        => /\ call'.ret = <<"Unit">>
           /\ call'.arg.outL # "ok"
                => DrawsWith(enc', call'.arg.ctx.right.clip)
           /\ (call'.arg.outL = "ok" /\ call'.arg.outR # "ok")
                => DrawsWith(enc', call'.arg.ctx.left.clip) ]_vars

\* C4, amended: draw returns no error and logs the one try_draw had.  A
\* failure is isolated per mesh: whatever the earlier calls did, a draw
\* call on a configured topology issues both draw commands when no
\* draw_raw of its own fails.  Within a mesh only the left eye is isolated
\* from the right: a failure of the right eye's draw_raw leaves the left
\* eye's draw command issued, a failure of the left eye's ends the call with
\* no draw command for either eye.
C4_DrawIsolatedPerMesh ==
    [][ call'.op = "draw"
        => LET a == call'.arg
               D == DrawIdx(enc')
           IN  /\ call'.ret = <<"Unit">>
               /\ map' = map
               /\ IsSome(map[a.mesh.prim]) =>
                    /\ (a.outL = "ok" /\ a.outR = "ok")
                         => (Cardinality(D) = 2 /\ a.logged = None)
                    /\ (a.outL = "ok" /\ a.outR # "ok")
                         => /\ Cardinality(D) = 1
                            /\ DrawsWith(enc', a.ctx.left.clip)
                            /\ a.logged = <<(<<"Err", "DrawRaw", "right">>)>>
                    /\ a.outL # "ok"
                         => /\ D = {}
                            /\ a.logged = <<(<<"Err", "DrawRaw", "left">>)>>
               /\ ~IsSome(map[a.mesh.prim]) =>
                    /\ enc' = <<>>
                    /\ a.logged
                         = <<(<<"Err", "InvalidPrimitive", a.mesh.prim>>)>>
      ]_vars

\* C4 happens: a draw call whose right eye's draw_raw failed after the left
\* eye's draw command was issued, with the error logged.
C4_Witness ==
    /\ call.op = "draw"
    /\ call.arg.outL = "ok"
    /\ call.arg.outR = "late"
    /\ IsSome(call.arg.logged)
    /\ Cardinality(DrawIdx(enc)) = 1

\* C5: when Style::new fails inside setup(T), setup returns that error, T
\* stays unconfigured (try_draw on T is refused as before) and every other
\* topology keeps its pipeline and is drawn with it.
C5_FailedSetup ==
    [][ (call'.op = "setup" /\ call'.arg.invoked /\ ~call'.arg.compiles)
        => LET t == call'.arg.prim
           IN  /\ call'.ret = <<"Err", "PipelineState">>
               /\ map'[t] = None
               /\ t \notin setupOk'
               /\ \A c \in Ctxs, m \in Models :
                    TryDrawResult(map', inputs', c, m, MeshOf(t), "ok", "ok").ret
                      = <<"Err", "InvalidPrimitive", t>>
               /\ \A u \in Topologies \ {t} :
                    /\ map'[u] = map[u]
                    /\ IsSome(map[u]) =>
                         \A c \in Ctxs, m \in Models :
                           LET r == TryDrawResult(map', inputs', c, m,
                                                  MeshOf(u), "ok", "ok")
                           IN  /\ r.ret = <<"Ok">>
                               /\ \A d \in DrawIdx(r.cmds) :
                                    r.cmds[d].arg.pso = Unwrap(map[u])
      ]_vars

\* C5 happens: a setup call failed in Style::new while another topology
\* was configured.
C5_Witness ==
    /\ call.op = "setup"
    /\ call.ret[1] = "Err"
    /\ \E u \in Topologies \ {call.arg.prim} : IsSome(map[u])

\* C6 as stated: Style::new is invoked at most once per topology.
C6_AsStated == \A t \in Topologies : newCalls[t] <= 1

\* C6, amended: setup invokes Style::new exactly when the topology is
\* absent from the cache, so never again once an invocation has succeeded;
\* an invocation that failed leaves the topology absent and the next setup
\* invokes Style::new again.
C6_NewOnlyWhenAbsent ==
    [][ call'.op = "setup"
        => LET t == call'.arg.prim
           IN  /\ call'.arg.invoked <=> (map[t] = None)
               /\ t \in setupOk => ~call'.arg.invoked
               /\ newCalls' = [newCalls EXCEPT
                                 ![t] = IF map[t] = None THEN @ + 1 ELSE @]
      ]_vars

\* C6 happens: Style::new ran twice for one topology, the first time
\* failing and the second time, in the latest call, with success.
C6_Witness ==
    /\ call.op = "setup"
    /\ newCalls[call.arg.prim] = 2
    /\ call.arg.prim \in setupOk
    /\ call.arg.invoked

\* C7: no call removes or replaces a cached pipeline, and a try_draw or draw
\* on a topology that is configured is never refused as unsupported.
C7_CacheMonotonic ==
    [][ /\ \A t \in Topologies : IsSome(map[t]) => map'[t] = map[t]
        /\ setupOk \subseteq setupOk'
        /\ (call'.op = "try_draw" /\ IsSome(map[call'.arg.mesh.prim]))
             => call'.ret \notin
                  { <<"Err", "InvalidPrimitive", t>> : t \in Topologies }
        /\ (call'.op = "draw" /\ IsSome(map[call'.arg.mesh.prim]))
             => call'.arg.logged \notin
                  { <<(<<"Err", "InvalidPrimitive", t>>)>> : t \in Topologies }
      ]_vars

\* C7 happens: one topology is configured, every setup of the other one
\* has failed, and a try_draw on the configured one succeeds.
C7_Witness ==
    /\ \E t \in Topologies : IsSome(map[t]) /\ newCalls[t] = 2
    /\ \E t \in Topologies : map[t] = None /\ newCalls[t] = 2
    /\ call.op = "try_draw"
    /\ call.ret = <<"Ok">>

\* The positions of the shade-buffer updates in a command sequence.
ShadeIdx(cmds) == { k \in 1..Len(cmds) : cmds[k].cmd = "update_shade" }
\* The positions of its transform-buffer updates.
AllTransformIdx(cmds) ==
    { k \in 1..Len(cmds) : cmds[k].cmd = "update_transform" }

\* C18: pending values are consumed on read.  A try_draw or draw on a
\* configured topology (its draw_raw calls being UnishadeStyle's, which
\* return Ok) enqueues one transform update per eye, the transform being
\* staged for each, and a shade update exactly when a shade block is
\* pending: one, carrying that block, ahead of the first draw command; it
\* leaves both pending slots empty.  cfg with colors replaces the pending
\* shade block and enqueues nothing; no other call stages a shade block or
\* enqueues an update.  Hence the colors set last are uploaded once, by the
\* next draw_raw, and not again until colors is called again.
C18_PendingConsumed ==
    [][ LET drawing == /\ call'.op \in {"try_draw", "draw"}
                       /\ IsSome(map[call'.arg.mesh.prim])
                       /\ call'.arg.outL = "ok"
                       /\ call'.arg.outR = "ok"
            refused == /\ call'.op \in {"try_draw", "draw"}
                       /\ ~IsSome(map[call'.arg.mesh.prim])
        IN  /\ drawing
              => /\ Cardinality(AllTransformIdx(enc')) = 2
                 /\ Cardinality(DrawIdx(enc')) = 2
                 /\ inputs.shade = <<>> => ShadeIdx(enc') = {}
                 /\ inputs.shade # <<>>
                      => /\ Cardinality(ShadeIdx(enc')) = 1
                         /\ \A k \in ShadeIdx(enc') :
                              /\ enc'[k].arg = inputs.shade[1]
                              /\ \A d \in DrawIdx(enc') : k < d
                 /\ inputs'.transform = <<>>
                 /\ inputs'.shade = <<>>
            /\ call'.op = "cfg"
              => /\ inputs'.shade = <<[ dark  |-> call'.arg.dark,
                                        light |-> call'.arg.light ]>>
                 /\ inputs'.transform = inputs.transform
                 /\ enc' = <<>>
            /\ (refused \/ call'.op = "setup")
              => /\ inputs' = inputs
                 /\ enc' = <<>> ]_vars

\* C18 happens: a draw uploaded the pending colors once, ahead of both draw
\* commands, and left nothing pending.
C18_Witness ==
    /\ call.op = "draw"
    /\ call.arg.outL = "ok"
    /\ call.arg.outR = "ok"
    /\ Cardinality(DrawIdx(enc)) = 2
    /\ Cardinality(ShadeIdx(enc)) = 1
    /\ \A k \in ShadeIdx(enc) : enc[k].arg = [dark |-> "red", light |-> "blue"]
    /\ inputs = [transform |-> <<>>, shade |-> <<>>]


(***************************************************************************)
(* Part 2.  VrMoment, ControllerRef and ViveController (src/src/vr.rs).    *)
(*                                                                         *)
(* A pose is an isometry of the line of integers modulo 3: x |-> r*x + t   *)
(* with r in {1, 2}.  These six maps form a group that is not commutative, *)
(* as the isometries of space are.                                         *)
(***************************************************************************)
PoseIdentity == [r |-> 1, t |-> 0]
\* p * q: apply q, then p.
Compose(p, q) == [r |-> (p.r * q.r) % 3, t |-> (p.r * q.t + p.t) % 3]
\* r is its own inverse modulo 3.
Inverse(p) == [r |-> p.r, t |-> (3 - ((p.r * p.t) % 3)) % 3]

\* ControllerRef.  The id of a role is 0 and is never read.
Primary == [kind |-> "Primary", id |-> 0]
Secondary == [kind |-> "Secondary", id |-> 0]
Tertiary == [kind |-> "Tertiary", id |-> 0]
Indexed(i) == [kind |-> "Indexed", id |-> i]

\* The gamepad ids of the device layer.
Ids == {3, 7, 9}
Refs == {Primary, Secondary, Tertiary} \cup { Indexed(i) : i \in Ids }

\* The i-th element of an iterator over s: Iterator::next called i times.
Nth(s, i) == IF i <= Len(s) THEN Some(s[i]) ELSE None

\* A variant of MomentOf that hands the roles to the gamepads it inserts
\* in the controller map: the first three with a valid pose.
MomentOfRolesFromTracked(gamepads) ==
    LET tracked == { k \in 1..Len(gamepads) : IsSome(gamepads[k].pose) }
        rank(k) == Cardinality({ j \in tracked : j <= k })
        nth(n) == IF \E k \in tracked : rank(k) = n
                    THEN Some(gamepads[CHOOSE k \in tracked : rank(k) = n].id)
                    ELSE None
    IN  [ primary   |-> nth(1),
          secondary |-> nth(2),
          tertiary  |-> nth(3),
          cont      |-> [ i \in { gamepads[k].id : k \in tracked } |->
                            LET k == CHOOSE k \in tracked : gamepads[k].id = i
                            IN  [ name    |-> <<"gamepad", i>>,
                                  pose    |-> Unwrap(gamepads[k].pose),
                                  axes    |-> gamepads[k].axes,
                                  buttons |-> gamepads[k].buttons ] ] ]

\* The controller part of VrContext::sync.  A gamepad is its id, its pose
\* (None when pose_transform finds no orientation or no position), its axes
\* and its buttons; gamepads is the enumeration get_gamepads returned.
MomentOf(gamepads) ==
    LET ids == [k \in 1..Len(gamepads) |-> gamepads[k].id]
        tracked == { k \in 1..Len(gamepads) : IsSome(gamepads[k].pose) }
    IN  [ primary   |-> Nth(ids, 1),
          secondary |-> Nth(ids, 2),
          tertiary  |-> Nth(ids, 3),
          cont      |-> [ i \in { gamepads[k].id : k \in tracked } |->
                            LET k == CHOOSE k \in tracked : gamepads[k].id = i
                            IN  [ name    |-> <<"gamepad", i>>,
                                  pose    |-> Unwrap(gamepads[k].pose),
                                  axes    |-> gamepads[k].axes,
                                  buttons |-> gamepads[k].buttons ] ] ]

\* A variant of Index with the arm of Primary pasted for Secondary.
IndexPasted(ref, moment) ==
    CASE ref.kind = "Primary" -> moment.primary
      [] ref.kind = "Secondary" -> moment.primary
      [] ref.kind = "Tertiary" -> moment.tertiary
      [] OTHER -> Some(ref.id)

\* ControllerRef::index.
Index(ref, moment) ==
    CASE ref.kind = "Primary" -> moment.primary
      [] ref.kind = "Secondary" -> moment.secondary
      [] ref.kind = "Tertiary" -> moment.tertiary
      [] OTHER -> Some(ref.id)

\* ControllerRef::fixed.
Fixed(ref, moment) ==
    LET i == Index(ref, moment)
    IN  IF IsSome(i) THEN Indexed(Unwrap(i)) ELSE ref

\* VrMoment::controller.
Controller(moment, role) ==
    LET i == Index(role, moment)
    IN  IF IsSome(i) /\ Unwrap(i) \in DOMAIN moment.cont
          THEN Some(moment.cont[Unwrap(i)]) ELSE None

\* ViveController::default, bound to the ref is.
DefaultTracker(is) ==
    [ is          |-> is,
      connected   |-> FALSE,
      pose        |-> PoseIdentity,
      pose_delta  |-> PoseIdentity,
      trigger     |-> 0,
      pad         |-> <<0, 0>>,
      pad_delta   |-> <<0, 0>>,
      pad_touched |-> FALSE,
      menu        |-> FALSE,
      grip        |-> FALSE ]

\* A variant of UpdatePad that stores the pad before it takes the
\* difference.
UpdatePadStoringFirst(t, x, y) ==
    IF x # 0 \/ y # 0
      THEN [t EXCEPT !.pad = <<x, y>>,
                     !.pad_delta = <<x - x, y - y>>,
                     !.pad_touched = TRUE]
      ELSE [t EXCEPT !.pad_touched = FALSE]

\* The pad part of ViveController::update.
UpdatePad(t, x, y) ==
    IF x # 0 \/ y # 0
      THEN [t EXCEPT !.pad_delta = <<x - t.pad[1], y - t.pad[2]>>,
                     !.pad = <<x, y>>,
                     !.pad_touched = TRUE]
      ELSE [t EXCEPT !.pad_touched = FALSE]

\* A variant of UpdatePresent that marks the tracker connected and stores
\* the pose before it checks the shape of the report.
UpdatePresentCheckingLate(t, c) ==
    LET t1 == [t EXCEPT !.connected = TRUE,
                        !.pose_delta = Compose(c.pose, Inverse(t.pose)),
                        !.pose = c.pose]
    IN  IF Len(c.axes) # 3 \/ Len(c.buttons) # 2
          THEN [ret |-> <<"Err">>, trk |-> t1]
          ELSE LET t2 == UpdatePad(t1, c.axes[1], c.axes[2])
               IN  [ ret |-> <<"Ok">>,
                     trk |-> [t2 EXCEPT !.trigger = c.axes[3],
                                        !.menu = c.buttons[1].pressed,
                                        !.grip = c.buttons[2].pressed] ]

\* A variant of UpdatePresent that multiplies the other way round:
\* self.pose.inverse() * cont.pose.
UpdatePresentDeltaSwapped(t, c) ==
    IF Len(c.axes) # 3 \/ Len(c.buttons) # 2
      THEN [ret |-> <<"Err">>, trk |-> t]
      ELSE LET t1 == [t EXCEPT !.connected = TRUE,
                               !.pose_delta = Compose(Inverse(t.pose), c.pose),
                               !.pose = c.pose]
               t2 == UpdatePad(t1, c.axes[1], c.axes[2])
           IN  [ ret |-> <<"Ok">>,
                 trk |-> [t2 EXCEPT !.trigger = c.axes[3],
                                    !.menu = c.buttons[1].pressed,
                                    !.grip = c.buttons[2].pressed] ]

\* A variant of UpdatePresent that reads menu and grip from each other's
\* button.
UpdatePresentButtonsSwapped(t, c) ==
    IF Len(c.axes) # 3 \/ Len(c.buttons) # 2
      THEN [ret |-> <<"Err">>, trk |-> t]
      ELSE LET t1 == [t EXCEPT !.connected = TRUE,
                               !.pose_delta = Compose(c.pose, Inverse(t.pose)),
                               !.pose = c.pose]
               t2 == UpdatePad(t1, c.axes[1], c.axes[2])
           IN  [ ret |-> <<"Ok">>,
                 trk |-> [t2 EXCEPT !.trigger = c.axes[3],
                                    !.menu = c.buttons[2].pressed,
                                    !.grip = c.buttons[1].pressed] ]

\* The branch of ViveController::update for a controller that is present.
UpdatePresent(t, c) ==
    IF Len(c.axes) # 3 \/ Len(c.buttons) # 2
      THEN [ret |-> <<"Err">>, trk |-> t]
      ELSE LET t1 == [t EXCEPT !.connected = TRUE,
                               !.pose_delta = Compose(c.pose, Inverse(t.pose)),
                               !.pose = c.pose]
               t2 == UpdatePad(t1, c.axes[1], c.axes[2])
           IN  [ ret |-> <<"Ok">>,
                 trk |-> [t2 EXCEPT !.trigger = c.axes[3],
                                    !.menu = c.buttons[1].pressed,
                                    !.grip = c.buttons[2].pressed] ]

\* A variant of UpdateResult whose absent branch resets the whole tracker
\* to its default, keeping only the ref it is bound to.
UpdateResultResettingAll(t, moment) ==
    LET found == Controller(moment, t.is)
    IN  IF IsSome(found)
          THEN UpdatePresent(t, Unwrap(found))
          ELSE [ret |-> <<"Ok">>, trk |-> DefaultTracker(t.is)]

\* ViveController::update: what it returns and the tracker it leaves.
UpdateResult(t, moment) ==
    LET found == Controller(moment, t.is)
    IN  IF IsSome(found)
          THEN UpdatePresent(t, Unwrap(found))
          ELSE [ ret |-> <<"Ok">>,
                 trk |-> [t EXCEPT !.pad_touched = FALSE,
                                   !.menu = FALSE,
                                   !.grip = FALSE,
                                   !.trigger = 0,
                                   !.connected = FALSE] ]

\* The poses gamepads report: a reflection and a translation.
InputPoses == { [r |-> 2, t |-> 0], [r |-> 1, t |-> 1] }
OtherPose(p) == CHOOSE q \in InputPoses : q # p
\* The values an axis reports: 0..MaxAxis.
MaxAxis == 1
AxisValues == 0..MaxAxis
\* VRGamepadButton: a pressed button is touched.
ButtonStates ==
    { [pressed |-> FALSE, touched |-> FALSE],
      [pressed |-> TRUE, touched |-> TRUE] }
Held == [pressed |-> TRUE, touched |-> TRUE]

Released == [pressed |-> FALSE, touched |-> FALSE]

\* What a gamepad reports: a pose, its axes and its buttons.
Sample(p, a, b) == [pose |-> p, axes |-> a, buttons |-> b]
\* Every pad position under a pulled trigger, and every trigger value
\* over an untouched and over a touched pad.
ThreeAxes ==
    { <<x, y, 1>> : x \in AxisValues, y \in AxisValues }
    \cup { <<x, 0, z>> : x \in {0, 1}, z \in AxisValues }
TwoButtons == { <<m, g>> : m \in ButtonStates, g \in ButtonStates }
\* The reports with the shape ViveController expects: one report, varied in
\* its pose, in its axes or in its buttons.
WellFormed ==
    { Sample(p, <<1, 0, 1>>, <<Held, Released>>) : p \in InputPoses }
    \cup { Sample([r |-> 1, t |-> 1], a, <<Held, Released>>) : a \in ThreeAxes }
    \cup { Sample([r |-> 1, t |-> 1], <<1, 0, 1>>, b) : b \in TwoButtons }
\* The reports with another shape: too few axes, too many buttons, and
\* too many axes with too few buttons.
Malformed ==
    { Sample([r |-> 1, t |-> 1], <<1, 1>>, <<Held, Released>>),
      Sample([r |-> 1, t |-> 1], <<1, 0, 1>>, <<Held, Held, Held>>),
      Sample([r |-> 1, t |-> 1], <<1, 1, 1, 1>>, <<Held>>) }
Samples == WellFormed \cup Malformed

Reverse(q) == [k \in 1..Len(q) |-> q[Len(q) + 1 - k]]
\* What the gamepads after the first report: in every field something else.
Mirror(sample) ==
    [ pose    |-> OtherPose(sample.pose),
      axes    |-> Reverse(sample.axes),
      buttons |-> Reverse(sample.buttons) ]

\* The enumerations of distinct gamepads drawn from the ids S.
Orders(S) ==
    {<<>>} \cup { <<a>> : a \in S }
    \cup { q \in S \X S : q[1] # q[2] }
    \cup { q \in S \X S \X S : q[1] # q[2] /\ q[1] # q[3] /\ q[2] # q[3] }

\* The gamepads of one sync: enumerated in order, those in posed with a
\* pose; the first reports sample, the others its mirror image.
GamepadsOf(order, posed, sample) ==
    [ k \in 1..Len(order) |->
        LET d == IF k = 1 THEN sample ELSE Mirror(sample)
        IN  [ id      |-> order[k],
              pose    |-> IF order[k] \in posed THEN Some(d.pose) ELSE None,
              axes    |-> d.axes,
              buttons |-> d.buttons ] ]

\* The moments a tracker is updated with: two gamepads, 3 and 9.
TrackerMoments ==
    { MomentOf(GamepadsOf(o, v, d)) :
        o \in Orders({3, 9}), v \in SUBSET {3, 9}, d \in Samples }

TInit ==
    /\ trk \in { DefaultTracker(r) : r \in Refs }
    /\ upd = [ret |-> <<"None">>, slot |-> None, found |-> None, was |-> FALSE]

Update(moment) ==
    LET r == UpdateResult(trk, moment)
    IN  /\ trk' = r.trk
        /\ upd' = [ ret   |-> r.ret,
                    slot  |-> Index(trk.is, moment),
                    found |-> Controller(moment, trk.is),
                    was   |-> trk.connected ]
        /\ UNCHANGED <<pvars, rvars, svars, bvars>>

TNext == \E moment \in TrackerMoments : Update(moment)

\* The tracker part, at rest.
TIdle ==
    /\ trk = DefaultTracker(Primary)
    /\ upd = [ret |-> <<"None">>, slot |-> None, found |-> None, was |-> FALSE]

\* The moments a ControllerRef is resolved in: up to three gamepads, all
\* of them posed or none.
RefMoments ==
    { MomentOf(GamepadsOf(o, v, Sample([r |-> 1, t |-> 1], <<1, 0, 1>>,
                                       <<Held, Released>>))) :
        o \in Orders(Ids), v \in {{}, Ids} }

RInit ==
    /\ cref \in Refs
    /\ rcall = [op |-> "none", ref |-> Primary, mom |-> MomentOf(<<>>),
                out |-> None]

\* cref = cref.fixed(&moment)
FixedCall(moment) ==
    /\ cref' = Fixed(cref, moment)
    /\ rcall' = [op |-> "fixed", ref |-> cref, mom |-> moment,
                 out |-> Some(Fixed(cref, moment))]
    /\ UNCHANGED <<pvars, tvars, svars, bvars>>

\* cref resolved in a moment, as VrMoment::controller does.
IndexCall(moment) ==
    /\ rcall' = [op |-> "index", ref |-> cref, mom |-> moment,
                 out |-> Index(cref, moment)]
    /\ UNCHANGED <<cref, pvars, tvars, svars, bvars>>

RNext ==
    \/ \E moment \in RefMoments : FixedCall(moment)
    \/ \E moment \in RefMoments : IndexCall(moment)

(***************************************************************************)
(* Part 3.  VrContext::sync, set_texture and VrMoment::submit.             *)
(*                                                                         *)
(* A matrix is a 2x2 matrix over the integers modulo 3, <<a, b, c, d>> for *)
(* the rows (a b) and (c d): some are singular without being zero, and     *)
(* the product is not commutative.                                         *)
(***************************************************************************)
MatIdentity == <<1, 0, 0, 1>>
MatMul(m, n) ==
    << (m[1] * n[1] + m[2] * n[3]) % 3, (m[1] * n[2] + m[2] * n[4]) % 3,
       (m[3] * n[1] + m[4] * n[3]) % 3, (m[3] * n[2] + m[4] * n[4]) % 3 >>
Det(m) == (m[1] * m[4] + 2 * m[2] * m[3]) % 3
\* try_inverse: None for a singular matrix, else the adjugate over the
\* determinant (1 and 2 are their own reciprocals modulo 3).
TryInverse(m) ==
    LET k == Det(m)
    IN  IF k = 0 THEN None
        ELSE Some(<< (k * m[4]) % 3, (2 * k * m[2]) % 3,
                     (2 * k * m[3]) % 3, (k * m[1]) % 3 >>)
\* m * Point::origin(), in homogeneous coordinates.
MatOrigin(m) == <<m[2], m[4]>>

\* VREvent, as far as sync tells the kinds apart.
EventKinds == {"Pause", "Resume", "Exit", "Other"}

\* A variant of Handle whose catch-all arm is a copy of the Resume arm.
HandleResumingByDefault(ctx, event) ==
    CASE event = "Pause" -> [ctx EXCEPT !.paused = TRUE]
      [] event = "Resume" -> [ctx EXCEPT !.paused = FALSE]
      [] event = "Exit" -> [ctx EXCEPT !.exit = TRUE]
      [] OTHER -> [ctx EXCEPT !.paused = FALSE]

\* One arm of the match in sync's event loop.
Handle(ctx, event) ==
    CASE event = "Pause" -> [ctx EXCEPT !.paused = TRUE]
      [] event = "Resume" -> [ctx EXCEPT !.paused = FALSE]
      [] event = "Exit" -> [ctx EXCEPT !.exit = TRUE]
      [] OTHER -> ctx

\* The event loop of sync: the events of poll_events, first to last.
RECURSIVE DrainEvents(_, _)
DrainEvents(ctx, events) ==
    IF events = <<>> THEN ctx
    ELSE DrainEvents(Handle(ctx, Head(events)), Tail(events))

\* A variant of PoseTransform that takes the origin for a missing position.
PoseTransformDefaultingPosition(p) ==
    IF p.orientation = None THEN None
    ELSE IF p.position = None
           THEN Some([r |-> Unwrap(p.orientation), t |-> 0])
    ELSE Some([r |-> Unwrap(p.orientation), t |-> Unwrap(p.position)])

\* pose_transform: None unless the pose has an orientation and a position.
PoseTransform(p) ==
    IF p.orientation = None THEN None
    ELSE IF p.position = None THEN None
    ELSE Some([r |-> Unwrap(p.orientation), t |-> Unwrap(p.position)])

\* size_from_data.
SizeFromData(data) ==
    << data.lw + data.rw, IF data.lh >= data.rh THEN data.lh ELSE data.rh >>

\* A variant of StageOf that keeps the reported transform when it can be
\* inverted.
StageOfUninverted(data) ==
    IF IsSome(data.stage)
      THEN LET inv == TryInverse(Unwrap(data.stage))
           IN  IF IsSome(inv) THEN Unwrap(data.stage) ELSE MatIdentity
      ELSE MatIdentity

\* The stage transform sync computes.
StageOf(data) ==
    IF IsSome(data.stage)
      THEN LET inv == TryInverse(Unwrap(data.stage))
           IN  IF IsSome(inv) THEN Unwrap(inv) ELSE MatIdentity
      ELSE MatIdentity

\* A variant of HmdPresent that does not look at data.connected.
HmdPresentIgnoringConnected(data) == IsSome(PoseTransform(data.pose))

\* Whether sync fills moment.hmd.
HmdPresent(data) == IsSome(PoseTransform(data.pose)) /\ data.connected

\* The Hmd sync builds; both views are invertible.
HmdOf(data) ==
    LET size == SizeFromData(data)
    IN  [ name  |-> data.name,
          size  |-> size,
          pose  |-> Unwrap(PoseTransform(data.pose)),
          left  |-> [ eye  |-> MatOrigin(Unwrap(TryInverse(data.views[1]))),
                      view |-> data.views[1],
                      proj |-> data.projs[1],
                      clip_offset |-> -1,
                      clip |-> [x |-> 0, y |-> 0, w |-> data.lw % 65536,
                                h |-> size[2] % 65536] ],
          right |-> [ eye  |-> MatOrigin(Unwrap(TryInverse(data.views[2]))),
                      view |-> data.views[2],
                      proj |-> data.projs[2],
                      clip_offset |-> 1,
                      clip |-> [x |-> data.lw % 65536, y |-> 0,
                                w |-> data.rw % 65536,
                                h |-> size[2] % 65536] ] ]

\* The gamepads as sync's second loop sees them: each with the result of
\* pose_transform on its pose.
Enumerated(raw) ==
    [ k \in 1..Len(raw) |->
        [ id      |-> raw[k].id,
          pose    |-> PoseTransform(raw[k].pose),
          axes    |-> raw[k].axes,
          buttons |-> raw[k].buttons ] ]

\* VrContext::sync: the context it leaves, and the moment it returns unless
\* an unwrap of a view's inverse panics.
SyncResult(ctx, events, data) ==
    LET c1 == DrainEvents(ctx, events)
        pads == MomentOf(Enumerated(data.gamepads))
    IN  IF HmdPresent(data)
           /\ (TryInverse(data.views[1]) = None
               \/ TryInverse(data.views[2]) = None)
          THEN [ret |-> "panic", ctx |-> c1, moment |-> None]
          ELSE [ ret |-> "moment", ctx |-> c1,
                 moment |-> Some(
                   [ cont      |-> pads.cont,
                     hmd       |-> IF HmdPresent(data)
                                     THEN Some(HmdOf(data)) ELSE None,
                     primary   |-> pads.primary,
                     secondary |-> pads.secondary,
                     tertiary  |-> pads.tertiary,
                     layer     |-> c1.layer,
                     stage     |-> StageOf(data),
                     exit      |-> c1.exit,
                     paused    |-> c1.paused ]) ]

\* A variant of SubmitResult that reads the context's layer.
SubmitResultFromContext(m, ctx) == ctx.layer

\* VrMoment::submit: the layer render_layer is given.
SubmitResult(m, ctx) == m.layer

\* The sequences of at most MaxEvents events one poll_events returns.
MaxEvents == 2
EventSeqs ==
    UNION { [1..n -> EventKinds] : n \in 0..MaxEvents }

\* The texture ids set_texture is given: 1..MaxTexture.
MaxTexture == 1

VrPose(o, p) == [orientation |-> o, position |-> p]

\* A headset that is connected and tracked, reports no stage and no
\* gamepads, and has invertible views.
BaseData ==
    [ name      |-> "hmd",
      connected |-> TRUE,
      pose      |-> VrPose(Some(2), Some(1)),
      stage     |-> None,
      views     |-> <<MatIdentity, MatIdentity>>,
      projs     |-> <<"projL", "projR">>,
      lw |-> 4, rw |-> 5, lh |-> 3, rh |-> 2,
      gamepads  |-> <<>> ]

\* A shear (its inverse is another matrix), a quarter turn, a singular
\* matrix that is not zero, and the zero matrix.
Shear == <<1, 1, 0, 1>>
Turn == <<0, 1, 2, 0>>
Singular == <<1, 1, 1, 1>>
MatZero == <<0, 0, 0, 0>>

\* The headset's connection and pose, in every combination.
HmdData ==
    { [BaseData EXCEPT !.connected = c, !.pose = VrPose(o, p)] :
        c \in BOOLEAN, o \in {None, Some(2)}, p \in {None, Some(1)} }

\* The views of the two eyes: invertible, or one of them singular; and
\* singular views of a headset that is not connected.
ViewData ==
    { [BaseData EXCEPT !.views = v] :
        v \in { <<Shear, Turn>>, <<Singular, MatIdentity>>,
                <<MatIdentity, Singular>> } }
    \cup { [BaseData EXCEPT !.connected = FALSE,
                            !.views = <<Singular, MatZero>>] }

\* The sitting-to-standing transforms a device reports.
StageMatrices ==
    { MatIdentity, Shear, Turn, MatMul(Shear, Turn), Singular, MatZero }
StageData == { [BaseData EXCEPT !.stage = Some(m)] : m \in StageMatrices }

\* The pose a gamepad reports: complete when it is in posed; else gamepad
\* 3 lacks its orientation, gamepad 9 its position and any other both.
RawPose(id, posed, pose) ==
    IF id \in posed THEN VrPose(Some(pose.r), Some(pose.t))
    ELSE IF id = 3 THEN VrPose(None, Some(pose.t))
    ELSE IF id = 9 THEN VrPose(Some(pose.r), None)
    ELSE VrPose(None, None)

\* The gamepads get_gamepads returns, in enumeration order.
RawGamepads(order, posed) ==
    [ k \in 1..Len(order) |->
        LET base == Sample([r |-> 1, t |-> 1], <<1, 0, 1>>, <<Held, Released>>)
            d == IF k = 1 THEN base ELSE Mirror(base)
        IN  [ id      |-> order[k],
              pose    |-> RawPose(order[k], posed, d.pose),
              axes    |-> d.axes,
              buttons |-> d.buttons ] ]

\* Up to two gamepads in every order and with every pose missing or not;
\* three gamepads with all or one of the poses.
PadData ==
    { [BaseData EXCEPT !.gamepads = RawGamepads(o, v)] :
        o \in Orders({3, 9}), v \in SUBSET {3, 9} }
    \cup { [BaseData EXCEPT !.gamepads = RawGamepads(o, v)] :
             o \in { <<9, 3, 7>> }, v \in { Ids, {3} } }

\* What one sync reads from the device: events with the base data, or no
\* events with other data.
SyncInputs ==
    { <<e, BaseData>> : e \in EventSeqs }
    \cup { <<<<>>, d>> :
             d \in HmdData \cup ViewData \cup StageData \cup PadData }

\* History: whether the latest Pause or Resume among the events drained so
\* far is a Pause; prev says so for the events before these.
LastIsPause(prev, events) ==
    LET at == { k \in 1..Len(events) : events[k] \in {"Pause", "Resume"} }
    IN  IF at = {} THEN prev
        ELSE events[CHOOSE k \in at : \A j \in at : j <= k] = "Pause"

VInit ==
    /\ vctx = [paused |-> FALSE, exit |-> FALSE, layer |-> [texture_id |-> 0]]
    /\ vmoment = None
    /\ shown = None
    /\ vcall = [op |-> "init", ret |-> "context", data |-> BaseData,
                layer |-> [texture_id |-> 0], ignored |-> FALSE]
    /\ hist = [pauseLast |-> FALSE, exitSeen |-> FALSE]

\* let moment = vrctx.sync();  vcall keeps the data this sync read, the
\* layer the context held when it ran, and whether it drained an event
\* that is no Pause, Resume or Exit.
Sync(events, data) ==
    LET r == SyncResult(vctx, events, data)
    IN  /\ vcall.ret # "panic"
        /\ vctx' = r.ctx
        /\ vmoment' = r.moment
        /\ vcall' = [op |-> "sync", ret |-> r.ret, data |-> data,
                     layer |-> vctx.layer,
                     ignored |-> \E k \in 1..Len(events) : events[k] = "Other"]
        /\ hist' = [ pauseLast |-> LastIsPause(hist.pauseLast, events),
                     exitSeen  |-> hist.exitSeen
                                   \/ \E k \in 1..Len(events) :
                                        events[k] = "Exit" ]
        /\ UNCHANGED <<shown, pvars, tvars, rvars, bvars>>

\* VrContext::set_texture.
SetTexture(id) ==
    /\ vcall.ret # "panic"
    /\ vctx' = [vctx EXCEPT !.layer = [texture_id |-> id]]
    /\ vcall' = [vcall EXCEPT !.op = "set_texture", !.ret = "unit"]
    /\ UNCHANGED <<vmoment, shown, hist, pvars, tvars, rvars, bvars>>

\* moment.submit(&mut vrctx): the moment is consumed.
Submit ==
    /\ vcall.ret # "panic"
    /\ IsSome(vmoment)
    /\ shown' = Some(SubmitResult(Unwrap(vmoment), vctx))
    /\ vmoment' = None
    /\ vcall' = [vcall EXCEPT !.op = "submit", !.ret = "unit"]
    /\ UNCHANGED <<vctx, hist, pvars, tvars, rvars, bvars>>

VNext ==
    \/ \E i \in SyncInputs : Sync(i[1], i[2])
    \/ \E id \in 1..MaxTexture : SetTexture(id)
    \/ Submit

(***************************************************************************)
(* Part 4.  Painter::cfg with a closure that calls back into the painter.  *)
(* cfg holds the RefMut of Painter.inputs while its closure runs.          *)
(***************************************************************************)
\* RefCell::borrow_mut: the flag it leaves, or no flag when it panics.
BorrowMut(flag) == IF flag = "free" THEN Some("mut") ELSE None

BInit ==
    /\ borrow = "free"
    /\ nesting = 0
    /\ fault = None

\* painter.cfg(f) is called, from the top level or from a running closure,
\* and f starts to run.  A panic unwinds every frame and drops its RefMut.
CfgEnter ==
    /\ fault = None
    /\ LET b == BorrowMut(borrow)
       IN  IF IsSome(b)
             THEN /\ borrow' = Unwrap(b)
                  /\ nesting' = nesting + 1
                  /\ fault' = None
                  /\ call' = [op |-> "cfg_enter", ret |-> <<"Running">>,
                              arg |-> [nested |-> nesting > 0]]
             ELSE /\ borrow' = "free"
                  /\ nesting' = 0
                  /\ fault' = Some("BorrowMutError")
                  /\ call' = [op |-> "cfg_enter", ret |-> <<"Panic">>,
                              arg |-> [nested |-> nesting > 0]]
    /\ enc' = <<>>
    /\ UNCHANGED <<map, inputs, newCalls, setupOk, tvars, rvars, svars>>

\* The running closure calls colors on the Inputs it was handed.
ClosureColors(dark, light) ==
    /\ fault = None
    /\ nesting > 0
    /\ inputs' = SetColors(inputs, dark, light)
    /\ enc' = <<>>
    /\ call' = [op |-> "colors", ret |-> <<"Unit">>,
                arg |-> [dark |-> dark, light |-> light]]
    /\ UNCHANGED <<map, newCalls, setupOk, tvars, rvars, svars, bvars>>

\* The running closure returns and cfg drops its RefMut.
CfgReturn ==
    /\ fault = None
    /\ nesting > 0
    /\ borrow' = "free"
    /\ nesting' = nesting - 1
    /\ enc' = <<>>
    /\ call' = [op |-> "cfg", ret |-> <<"Unit">>, arg |-> [nested |-> nesting > 1]]
    /\ UNCHANGED <<map, inputs, newCalls, setupOk, fault, tvars, rvars, svars>>

\* The running closure calls try_draw (strict) or draw on the painter:
\* the topology is looked up, and then the Inputs are borrowed.
NestedDraw(strict, ctx, model, mesh) ==
    /\ fault = None
    /\ nesting > 0
    /\ IF IsSome(map[mesh.prim])
         THEN LET b == BorrowMut(borrow)
              IN  IF IsSome(b)
                    THEN LET r == TryDrawResult(map, inputs, ctx, model, mesh,
                                                "ok", "ok")
                         IN  /\ inputs' = r.inputs
                             /\ enc' = r.cmds
                             /\ call' = [op |-> "nested_draw", ret |-> r.ret,
                                         arg |-> [strict |-> strict]]
                             /\ UNCHANGED bvars
                    ELSE /\ borrow' = "free"
                         /\ nesting' = 0
                         /\ fault' = Some("BorrowMutError")
                         /\ enc' = <<>>
                         /\ call' = [op |-> "nested_draw", ret |-> <<"Panic">>,
                                     arg |-> [strict |-> strict]]
                         /\ UNCHANGED inputs
         ELSE /\ enc' = <<>>
              /\ call' = [op |-> "nested_draw",
                          ret |-> IF strict
                                    THEN <<"Err", "InvalidPrimitive", mesh.prim>>
                                    ELSE <<"Unit">>,
                          arg |-> [strict |-> strict]]
              /\ UNCHANGED <<inputs, bvars>>
    /\ UNCHANGED <<map, newCalls, setupOk, tvars, rvars, svars>>

\* A call from the top level: no closure is running.
TopLevel ==
    /\ fault = None
    /\ nesting = 0
    /\ PNext

BNext ==
    \/ TopLevel
    \/ CfgEnter
    \/ \E c \in ColorPairs : ClosureColors(c[1], c[2])
    \/ CfgReturn
    \/ \E strict \in BOOLEAN, ctx \in Ctxs, model \in Models, mesh \in Meshes :
          NestedDraw(strict, ctx, model, mesh)

InitRef == PInit /\ TIdle /\ RInit /\ VInit /\ BInit
SpecRef == InitRef /\ [][RNext]_vars

\* The ControllerRef part, at rest.
RIdle ==
    /\ cref = Primary
    /\ rcall = [op |-> "none", ref |-> Primary, mom |-> MomentOf(<<>>),
                out |-> None]

InitTracker == PInit /\ TInit /\ RIdle /\ VInit /\ BInit
SpecTracker == InitTracker /\ [][TNext]_vars

\* The painter on its own: the tracker and the ControllerRef stay at rest.
InitPainter == PInit /\ TIdle /\ RIdle /\ VInit /\ BInit
SpecPainter == InitPainter /\ [][PNext]_vars

\* The VrContext on its own.
InitVr == PInit /\ TIdle /\ RIdle /\ VInit /\ BInit
SpecVr == InitVr /\ [][VNext]_vars

\* The painter with cfg closures that call back into it.
InitReentrant == PInit /\ TIdle /\ RIdle /\ VInit /\ BInit
SpecReentrant == InitReentrant /\ [][BNext]_vars

(***************************************************************************)
(* Properties of ControllerRef and of the tracker.                         *)
(***************************************************************************)
\* The slot of a role in a moment; an Indexed ref has none.
Slot(ref, moment) ==
    IF ref.kind = "Primary" THEN moment.primary
    ELSE IF ref.kind = "Secondary" THEN moment.secondary
    ELSE moment.tertiary

\* C8: fixed returns Indexed(id) for Indexed(id) and for a role whose slot
\* in the moment holds id, and returns the role itself when its slot is
\* empty; an Indexed(id) resolves to id in every moment, whatever its roles.
C8_Fixed ==
    /\ (rcall.op = "fixed" /\ rcall.ref.kind = "Indexed")
         => rcall.out = <<[kind |-> "Indexed", id |-> rcall.ref.id]>>
    /\ (rcall.op = "fixed" /\ rcall.ref.kind # "Indexed")
         => /\ Slot(rcall.ref, rcall.mom) = <<>> => rcall.out = <<rcall.ref>>
            /\ \A i \in Ids :
                 Slot(rcall.ref, rcall.mom) = <<i>>
                   => rcall.out = <<[kind |-> "Indexed", id |-> i]>>
    /\ rcall.op = "fixed" => cref = rcall.out[1]
    /\ (rcall.op = "index" /\ rcall.ref.kind = "Indexed")
         => rcall.out = <<rcall.ref.id>>

\* C8 happens: the secondary role, resolving to id 7 in the moment, was
\* fixed to Indexed(7).
C8_Witness ==
    /\ rcall.op = "fixed"
    /\ rcall.ref = Secondary
    /\ rcall.mom.secondary = <<7>>
    /\ cref = Indexed(7)

\* Whether a report has the shape ViveController expects.
Shaped(c) == Len(c.axes) = 3 /\ Len(c.buttons) = 2

\* C9: update on a moment in which the bound controller is present with
\* other than 3 axes or other than 2 buttons returns an error and leaves
\* every field of the tracker at its value before the call.
C9_WrongArity ==
    [][ (IsSome(upd'.found) /\ ~Shaped(upd'.found[1]))
        => /\ upd'.ret = <<"Err">>
           /\ trk'.connected = trk.connected
           /\ trk'.pose = trk.pose
           /\ trk'.pose_delta = trk.pose_delta
           /\ trk'.trigger = trk.trigger
           /\ trk'.pad = trk.pad
           /\ trk'.pad_delta = trk.pad_delta
           /\ trk'.pad_touched = trk.pad_touched
           /\ trk'.menu = trk.menu
           /\ trk'.grip = trk.grip
           /\ trk'.is = trk.is ]_vars

\* C9 happens: update refused a report of two axes while the tracker was
\* connected, at another pose than the report's and with the pad touched.
C9_Witness ==
    /\ upd.ret = <<"Err">>
    /\ IsSome(upd.found)
    /\ Len(upd.found[1].axes) = 2
    /\ trk.connected
    /\ trk.pad_touched
    /\ trk.pose # upd.found[1].pose

\* C10: update with a present, well-formed report whose axes 0 and 1 are
\* both zero clears pad_touched and keeps pad and pad_delta; with any other
\* axes 0 and 1 it sets pad to them, pad_delta to the new pad minus the pad
\* before the call, and pad_touched.  No other update changes pad or
\* pad_delta, so the pad before the call is the last touched one.
C10_Pad ==
    [][ /\ (IsSome(upd'.found) /\ Shaped(upd'.found[1]))
          => LET a == upd'.found[1].axes
             IN  /\ upd'.ret = <<"Ok">>
                 /\ (a[1] = 0 /\ a[2] = 0)
                      => /\ trk'.pad_touched = FALSE
                         /\ trk'.pad = trk.pad
                         /\ trk'.pad_delta = trk.pad_delta
                 /\ ~(a[1] = 0 /\ a[2] = 0)
                      => /\ trk'.pad_touched = TRUE
                         /\ trk'.pad = <<a[1], a[2]>>
                         /\ trk'.pad_delta
                              = <<a[1] - trk.pad[1], a[2] - trk.pad[2]>>
        /\ ~(IsSome(upd'.found) /\ Shaped(upd'.found[1]))
          => (trk'.pad = trk.pad /\ trk'.pad_delta = trk.pad_delta)
      ]_vars

\* C10 happens: a touched pad whose delta is neither zero nor the pad
\* itself: it was taken from an earlier touched position.
C10_Witness ==
    /\ upd.ret = <<"Ok">>
    /\ IsSome(upd.found)
    /\ trk.pad_touched
    /\ trk.pad = <<upd.found[1].axes[1], upd.found[1].axes[2]>>
    /\ trk.pad_delta # <<0, 0>>
    /\ trk.pad_delta # trk.pad

\* C11: update on a moment in which the bound ref resolves to no controller
\* (the role's slot is empty, or the id is not in the moment's controller
\* map) returns Ok, clears connected, menu, grip and pad_touched, zeroes
\* trigger, and keeps pose, pose_delta, pad and pad_delta.
C11_AbsentController ==
    [][ (upd'.slot = <<>> \/ (upd'.slot # <<>> /\ upd'.found = <<>>))
        => /\ upd'.ret = <<"Ok">>
           /\ trk'.connected = FALSE
           /\ trk'.trigger = 0
           /\ trk'.menu = FALSE
           /\ trk'.grip = FALSE
           /\ trk'.pad_touched = FALSE
           /\ trk'.pose = trk.pose
           /\ trk'.pose_delta = trk.pose_delta
           /\ trk'.pad = trk.pad
           /\ trk'.pad_delta = trk.pad_delta
           /\ trk'.is = trk.is ]_vars

\* C11 happens: a connected tracker was updated with a moment that names
\* its controller in a role but holds no controller under that id; it is
\* disconnected and still has the pose, the pad and the deltas it had.
C11_Witness ==
    /\ upd.ret = <<"Ok">>
    /\ upd.was
    /\ upd.slot # <<>>
    /\ upd.found = <<>>
    /\ ~trk.connected
    /\ trk.trigger = 0
    /\ trk.pose # [r |-> 1, t |-> 0]
    /\ trk.pose_delta # [r |-> 1, t |-> 0]
    /\ trk.pad # <<0, 0>>
    /\ trk.pad_delta # <<0, 0>>

\* C12: after update with a present, well-formed controller at pose P1,
\* the tracker's pose is P1 and its pose_delta is P1 composed with the
\* inverse of P0, the tracker's pose before the call, so that pose_delta
\* composed with P0 is P1; connected or not before the call.
C12_PoseDelta ==
    [][ (IsSome(upd'.found) /\ Shaped(upd'.found[1]))
        => LET P0 == trk.pose
               P1 == upd'.found[1].pose
               d == trk'.pose_delta
           IN  /\ upd'.ret = <<"Ok">>
               /\ trk'.pose = P1
               /\ [r |-> (d.r * P0.r) % 3, t |-> (d.r * P0.t + d.t) % 3] = P1
               /\ \A x \in 0..2 :
                    (d.r * ((P0.r * x + P0.t) % 3) + d.t) % 3
                      = (P1.r * x + P1.t) % 3 ]_vars

\* C12 happens: a tracker that was disconnected, and had kept a pose other
\* than the identity and other than the new one, was updated: its delta is
\* neither the identity nor the new pose.
C12_Witness ==
    /\ upd.ret = <<"Ok">>
    /\ IsSome(upd.found)
    /\ ~upd.was
    /\ trk.connected
    /\ trk.pose = upd.found[1].pose
    /\ trk.pose_delta # [r |-> 1, t |-> 0]
    /\ trk.pose_delta # trk.pose

(***************************************************************************)
(* Properties of VrContext::sync and VrMoment::submit.  While vmoment is   *)
(* present, vcall.data is the device data of the sync that returned it.    *)
(***************************************************************************)
\* C13: the moment a sync returns has an hmd exactly when, at that sync,
\* the device reported connected and its pose had both an orientation and a
\* position; a device that is not connected yields no hmd whatever its pose.
C13_HmdPresence ==
    IsSome(vmoment)
      => LET d == vcall.data
         IN  /\ (vmoment[1].hmd # <<>>)
                   <=> (d.connected /\ d.pose.orientation # <<>>
                        /\ d.pose.position # <<>>)
             /\ ~d.connected => vmoment[1].hmd = <<>>

\* C13 happens: a device that is not connected reported a complete pose
\* and the moment has no hmd.
C13_Witness ==
    /\ IsSome(vmoment)
    /\ ~vcall.data.connected
    /\ vcall.data.pose.orientation # <<>>
    /\ vcall.data.pose.position # <<>>
    /\ vmoment[1].hmd = <<>>

\* C14: primary, secondary and tertiary of the moment a sync returns are
\* the ids of the first, second and third gamepad that sync enumerated, in
\* order, and none where it enumerated fewer; with or without a valid pose,
\* and whatever the moments before.
C14_Roles ==
    IsSome(vmoment)
      => LET g == vcall.data.gamepads
             id(n) == IF Len(g) >= n THEN <<g[n].id>> ELSE <<>>
         IN  /\ vmoment[1].primary = id(1)
             /\ vmoment[1].secondary = id(2)
             /\ vmoment[1].tertiary = id(3)

\* C14 happens: gamepads 9 and 3 were enumerated in that order, 9 without
\* a valid pose: primary is 9, secondary 3, and there is no tertiary.
C14_Witness ==
    /\ IsSome(vmoment)
    /\ Len(vcall.data.gamepads) = 2
    /\ vcall.data.gamepads[1].id = 9
    /\ vcall.data.gamepads[2].id = 3
    /\ vcall.data.gamepads[1].pose.position = <<>>
    /\ vmoment[1].primary = <<9>>
    /\ vmoment[1].secondary = <<3>>
    /\ vmoment[1].tertiary = <<>>

\* Every matrix of the model.
AllMatrices ==
    { <<a, b, c, d>> : a \in 0..2, b \in 0..2, c \in 0..2, d \in 0..2 }
\* The matrices n with n * m = 1 = m * n.
InversesOf(m) ==
    { n \in AllMatrices :
        /\ << (n[1] * m[1] + n[2] * m[3]) % 3, (n[1] * m[2] + n[2] * m[4]) % 3,
              (n[3] * m[1] + n[4] * m[3]) % 3, (n[3] * m[2] + n[4] * m[4]) % 3 >>
             = <<1, 0, 0, 1>>
        /\ << (m[1] * n[1] + m[2] * n[3]) % 3, (m[1] * n[2] + m[2] * n[4]) % 3,
              (m[3] * n[1] + m[4] * n[3]) % 3, (m[3] * n[2] + m[4] * n[4]) % 3 >>
             = <<1, 0, 0, 1>> }

\* C15: the stage of a moment is the identity when the device reported no
\* stage parameters or a sitting-to-standing transform without an inverse,
\* and is otherwise the inverse of the reported transform.
C15_Stage ==
    IsSome(vmoment)
      => LET reported == vcall.data.stage
             stage == vmoment[1].stage
         IN  /\ reported = <<>> => stage = <<1, 0, 0, 1>>
             /\ reported # <<>>
                  => /\ InversesOf(reported[1]) = {} => stage = <<1, 0, 0, 1>>
                     /\ InversesOf(reported[1]) # {}
                          => stage \in InversesOf(reported[1])

\* C15 happens: the device reported a transform whose inverse is neither
\* itself nor the identity, and the stage is that inverse.
C15_Witness ==
    /\ IsSome(vmoment)
    /\ vcall.data.stage # <<>>
    /\ vmoment[1].stage \in InversesOf(vcall.data.stage[1])
    /\ vmoment[1].stage # vcall.data.stage[1]
    /\ vmoment[1].stage # <<1, 0, 0, 1>>

\* C16: the paused flag of the moment a sync returns says whether the
\* latest Pause or Resume event drained so far is a Pause (no such event:
\* not paused), its exit flag whether an Exit event has been drained so
\* far; events of other kinds change neither.  Once a moment has the exit
\* flag, every later one has it.
C16_Flags ==
    [][ /\ IsSome(vmoment')
          => /\ vmoment'[1].paused = hist'.pauseLast
             /\ vmoment'[1].exit = hist'.exitSeen
        /\ (IsSome(vmoment) /\ vmoment[1].exit /\ IsSome(vmoment'))
          => vmoment'[1].exit
        /\ vctx.exit => vctx'.exit ]_vars

\* C16 happens: a sync that drained an event of another kind, after an
\* Exit and a last Pause had been drained, returned a moment that is paused
\* and has the exit flag.
C16_Witness ==
    /\ IsSome(vmoment)
    /\ vcall.op = "sync"
    /\ vcall.ignored
    /\ hist = [pauseLast |-> TRUE, exitSeen |-> TRUE]
    /\ vmoment[1].paused
    /\ vmoment[1].exit

\* The ids a ref can stand for in a moment: the id in its role's slot, or
\* its own for an Indexed ref.
IdsOf(ref, m) ==
    IF ref.kind = "Indexed" THEN {ref.id}
    ELSE { i \in {3, 7, 9} : Slot(ref, m) = <<i>> }

\* C17: the controller map of a moment holds exactly the enumerated
\* gamepads whose pose has an orientation and a position, each with the
\* pose it reported; a gamepad lacking either is left out and the sync
\* still returns a moment, and controller(ref) is none for every role or
\* index that stands for such a gamepad.
C17_ControllerMap ==
    IsSome(vmoment)
      => LET g == vcall.data.gamepads
             m == vmoment[1]
             valid == { k \in 1..Len(g) : g[k].pose.orientation # <<>>
                                           /\ g[k].pose.position # <<>> }
         IN  /\ DOMAIN m.cont = { g[k].id : k \in valid }
             /\ \A k \in valid :
                  /\ m.cont[g[k].id].pose.r = g[k].pose.orientation[1]
                  /\ m.cont[g[k].id].pose.t = g[k].pose.position[1]
                  /\ m.cont[g[k].id].axes = g[k].axes
                  /\ m.cont[g[k].id].buttons = g[k].buttons
             /\ \A ref \in Refs :
                  \A i \in IdsOf(ref, m) :
                    IF i \in { g[k].id : k \in valid }
                      THEN Controller(m, ref) = <<m.cont[i]>>
                      ELSE Controller(m, ref) = <<>>

\* C17 happens: gamepad 9 was enumerated first without a position and
\* gamepad 3 second with a valid pose; the map holds 3 only, and the primary
\* role, which stands for 9, has no controller.
C17_Witness ==
    /\ IsSome(vmoment)
    /\ Len(vcall.data.gamepads) = 2
    /\ vcall.data.gamepads[1].id = 9
    /\ vcall.data.gamepads[1].pose.position = <<>>
    /\ vcall.data.gamepads[1].pose.orientation # <<>>
    /\ vmoment[1].primary = <<9>>
    /\ DOMAIN vmoment[1].cont = {3}
    /\ Controller(vmoment[1], [kind |-> "Primary", id |-> 0]) = <<>>
    /\ Controller(vmoment[1], [kind |-> "Secondary", id |-> 0]) # <<>>

\* C19: submit hands the device the layer the context held at the sync
\* that returned the moment (vcall.layer), whatever set_texture did since;
\* a sync gives its moment the layer the context holds when it runs.
C19_SubmitLayer ==
    [][ /\ vcall'.op = "submit" => shown' = <<vcall.layer>>
        /\ (vcall'.op = "sync" /\ IsSome(vmoment'))
          => vmoment'[1].layer = vctx.layer ]_vars

\* C19 happens: a moment was submitted after set_texture had changed the
\* context's layer: the device was given the layer of the sync.
C19_Witness ==
    /\ vcall.op = "submit"
    /\ shown = <<[texture_id |-> 0]>>
    /\ vctx.layer = [texture_id |-> 1]

(***************************************************************************)
(* Properties of cfg closures that call back into the painter.             *)
(***************************************************************************)
\* C20 as stated: in every sequence and nesting of cfg, try_draw and draw
\* calls on one painter, each call obtains the Inputs without a borrow
\* failure, and at most one call holds them mutably.
C20_AsStated ==
    /\ fault = <<>>
    /\ nesting <= 1
    /\ nesting = 1 => borrow = "mut"

(***************************************************************************)
(* The remaining properties of sync and of the tracker.                    *)
(***************************************************************************)
\* C21 as stated: every sync returns a moment, whatever the device reports,
\* singular view matrices of a connected and tracked headset included.
C21_AsStated == vcall.op = "sync" => vcall.ret = "moment"

\* C22: after update with a present, well-formed report the tracker is
\* connected, its trigger is axis 2, its menu the pressed state of button 0
\* and its grip that of button 1, whatever the tracker held before and
\* whether or not the pad is touched.
C22_TriggerMenuGrip ==
    [][ (IsSome(upd'.found) /\ Shaped(upd'.found[1]))
        => /\ upd'.ret = <<"Ok">>
           /\ trk'.connected = TRUE
           /\ trk'.trigger = upd'.found[1].axes[3]
           /\ trk'.menu = upd'.found[1].buttons[1].pressed
           /\ trk'.grip = upd'.found[1].buttons[2].pressed ]_vars

\* C22 happens: a tracker that was not connected took a report with an
\* untouched pad, a pulled trigger, the menu button held and the grip
\* button released.
C22_Witness ==
    /\ upd.ret = <<"Ok">>
    /\ IsSome(upd.found)
    /\ ~upd.was
    /\ trk.connected
    /\ ~trk.pad_touched
    /\ trk.trigger = 1
    /\ trk.menu
    /\ ~trk.grip
    /\ upd.found[1].buttons[1].pressed
    /\ ~upd.found[1].buttons[2].pressed

====
